---------------------------- MODULE Spec2Model ----------------------------
(***************************************************************************)
(* The polite GET requester of someonengl/yep, in its two variants:         *)
(*   "app"  src/app.py  the Flask form handler home()                       *)
(*   "fos"  src/fos.py  the interactive command-line main()                 *)
(* Both share polite_get (retry loop with doubling backoff) and worker_task *)
(* (one unit of work: polite_get, then the pacing sleep), run on a          *)
(* ThreadPoolExecutor and collected with as_completed.                      *)
(*                                                                         *)
(* Text typed by the user is a sequence of one-character strings.  Python   *)
(* ints are unbounded; they are kept as [neg, hi, lo] with value            *)
(* hi * 10^6 + lo, so that the CLI cap 50000000000 is exact.  Seconds       *)
(* (floats in the code) are kept in microseconds.                           *)
(***************************************************************************)
EXTENDS Integers, Sequences, FiniteSets, TLC

\* ---- bounds of the model
\* Largest total a request of the model asks for and runs to completion.
MaxTotal == 2
\* Largest max_retries polite_get is called with directly (SpecGet).
MaxAttempts == 8

VARIABLES
  variant,      \* "app" | "fos": which program runs
  phase,        \* position of home() / main()
  msg,          \* last response / console line of the orchestrator
  form,         \* the texts received: request.form / the answers typed
  total,        \* the parsed total (unbounded int)
  conc,         \* the parsed concurrency (unbounded int)
  delay,        \* the per-worker delay, microseconds
  max_workers,  \* ThreadPoolExecutor(max_workers=...)
  submitted,    \* number of ex.submit calls made
  units,        \* per index: the future and its worker_task / polite_get frame
  yielded,      \* the futures as_completed has yielded
  results,      \* the list results, in collection order
  getCalls,     \* number of session.get calls made
  ok,           \* summary: 200 OK
  errors        \* summary: errors

vars == <<variant, phase, msg, form, total, conc, delay, max_workers,
          submitted, units, yielded, results, getCalls, ok, errors>>

\* ---- text and numbers ------------------------------------------------
DigitChars == <<"0", "1", "2", "3", "4", "5", "6", "7", "8", "9">>

IsDigitChar(c) == \E d \in 1..10 : DigitChars[d] = c

DigitVal(c) == (CHOOSE d \in 1..10 : DigitChars[d] = c) - 1

\* str.isdigit(): non-empty and every character a digit
isdigit(s) == Len(s) > 0 /\ \A k \in 1..Len(s) : IsDigitChar(s[k])

\* str(n) for n >= 0
RECURSIVE IntStr(_)
IntStr(n) == IF n < 10 THEN <<DigitChars[n + 1]>>
             ELSE IntStr(n \div 10) \o <<DigitChars[(n % 10) + 1]>>

\* An unbounded int: value = (neg ? -1 : 1) * (hi * 10^6 + lo), 0 <= lo < 10^6
Big(n) == [neg |-> n < 0,
           hi |-> (IF n < 0 THEN -n ELSE n) \div 1000000,
           lo |-> (IF n < 0 THEN -n ELSE n) % 1000000]

MagLess(a, b) == a.hi < b.hi \/ (a.hi = b.hi /\ a.lo < b.lo)

IsZero(b) == b.hi = 0 /\ b.lo = 0

\* a < b on unbounded ints
BigLess(a, b) ==
  CASE IsZero(a) /\ IsZero(b) -> FALSE
    [] a.neg /\ ~b.neg -> TRUE
    [] ~a.neg /\ b.neg -> FALSE
    [] a.neg /\ b.neg -> MagLess(b, a)
    [] OTHER -> MagLess(a, b)

BigGreater(a, b) == BigLess(b, a)

BigMin(a, b) == IF BigLess(b, a) THEN b ELSE a

\* the machine integer of an unbounded int that fits one
ToInt(b) == (IF b.neg THEN -1 ELSE 1) * (b.hi * 1000000 + b.lo)

\* the value of a digit string
RECURSIVE DigitsToBig(_)
DigitsToBig(s) ==
  IF s = <<>> THEN Big(0)
  ELSE LET p == DigitsToBig(SubSeq(s, 1, Len(s) - 1))
           l == p.lo * 10 + DigitVal(s[Len(s)])
       IN [neg |-> FALSE, hi |-> p.hi * 10 + (l \div 1000000), lo |-> l % 1000000]

\* int(s): an optional sign, then digits; anything else raises ValueError
IntParses(s) ==
  \/ isdigit(s)
  \/ Len(s) > 1 /\ s[1] \in {"-", "+"} /\ isdigit(Tail(s))

ParseInt(s) ==
  IF isdigit(s) THEN DigitsToBig(s)
  ELSE [DigitsToBig(Tail(s)) EXCEPT !.neg = (s[1] = "-")]

\* s.replace(".", "", 1)
DropFirstDot(s) ==
  IF \E k \in 1..Len(s) : s[k] = "."
  THEN LET k == CHOOSE j \in 1..Len(s) : s[j] = "." /\ \A m \in 1..(j - 1) : s[m] # "."
       IN SubSeq(s, 1, k - 1) \o SubSeq(s, k + 1, Len(s))
  ELSE s

\* float(s), for plain decimal text: an optional sign, digits with at most
\* one point and at least one digit; anything else raises ValueError
FloatParses(s) ==
  LET body == IF Len(s) > 0 /\ s[1] \in {"-", "+"} THEN Tail(s) ELSE s
  IN isdigit(DropFirstDot(body))

RECURSIVE DigitsToInt(_)
DigitsToInt(s) == IF s = <<>> THEN 0
                  ELSE DigitsToInt(SubSeq(s, 1, Len(s) - 1)) * 10 + DigitVal(s[Len(s)])

\* the value of float(s) in microseconds (digits beyond the sixth decimal dropped)
ParseFloat(s) ==
  LET sgn == IF Len(s) > 0 /\ s[1] = "-" THEN -1 ELSE 1
      body == IF Len(s) > 0 /\ s[1] \in {"-", "+"} THEN Tail(s) ELSE s
      dot == IF \E k \in 1..Len(body) : body[k] = "."
             THEN CHOOSE k \in 1..Len(body) : body[k] = "."
             ELSE Len(body) + 1
      ip == SubSeq(body, 1, dot - 1)
      fr == SubSeq(body, dot + 1, Len(body))
      fr6 == SubSeq(fr \o <<"0", "0", "0", "0", "0", "0">>, 1, 6)
  IN sgn * (DigitsToInt(ip) * 1000000 + DigitsToInt(fr6))


\* ---- configuration ---------------------------------------------------
Variants == {"app", "fos"}

\* DEFAULT_DELAY: 0.1 s (app), 0.000001 s (fos), in microseconds
DEFAULT_DELAY(v) == IF v = "app" THEN 100000 ELSE 1

DEFAULT_CONCURRENCY(v) == IF v = "app" THEN Big(1) ELSE Big(100)

\* DEFAULT_MAX_REQUESTS: 1000 (app), 50000000000 (fos)
DEFAULT_MAX_REQUESTS(v) ==
  IF v = "app" THEN Big(1000) ELSE [neg |-> FALSE, hi |-> 50000, lo |-> 0]

\* polite_get's default max_retries
\* (mutant) the two variants' attempt limits exchanged
DefaultMaxRetries_Swapped(v) == IF v = "app" THEN 5 ELSE 3

DefaultMaxRetries(v) == IF v = "app" THEN 3 ELSE 5

\* the ceiling of the backoff: min(backoff * 2, 10) / min(backoff * 2, 60)
BackoffCap(v) == IF v = "app" THEN 10 ELSE 60

\* the statuses polite_get retries
RetryStatuses == {429, 500, 502, 503, 504}

\* ---- urls ------------------------------------------------------------
\* A url is what urlparse sees of it (scheme, netloc) and its path as a
\* sequence of parts: literal text, the placeholder "{n}", or another
\* replacement field of str.format ("{m}").
EmptyUrl == [scheme |-> "", netloc |-> "", path |-> <<>>]

UrlInputs ==
  { EmptyUrl,
    [scheme |-> "ftp", netloc |-> "x.test", path |-> <<"{n}">>],
    [scheme |-> "http", netloc |-> "x.test", path |-> <<"p">>],
    [scheme |-> "http", netloc |-> "x.test", path |-> <<"{n}">>],
    [scheme |-> "https", netloc |-> "x.test", path |-> <<"{n}", "{m}">>] }

FormatFields == {"{n}", "{m}"}

\* "{n}" in template
HasPlaceholder(u) == \E k \in 1..Len(u.path) : u.path[k] = "{n}"

\* u.replace("{n}", "1")
ReplaceN(u, text) ==
  [u EXCEPT !.path = [k \in 1..Len(u.path) |->
                        IF u.path[k] = "{n}" THEN text ELSE u.path[k]]]

is_valid_url(u) == u.scheme \in {"http", "https"} /\ u.netloc # ""

\* template.format(n=n) raises KeyError on a field other than {n}
FormatRaises(u) == \E k \in 1..Len(u.path) : u.path[k] \in FormatFields \ {"{n}"}

\* the digits of n as one text
RECURSIVE Concat(_)
Concat(s) == IF s = <<>> THEN "" ELSE Concat(SubSeq(s, 1, Len(s) - 1)) \o s[Len(s)]

\* worker_task's url: template.format(n=n) if "{n}" in template else template
ExpandUrl(u, n) == IF HasPlaceholder(u) THEN ReplaceN(u, Concat(IntStr(n))) ELSE u

\* ---- responses of the network ----------------------------------------
\* the text of the RequestException raised in the batch
NetError == "timeout"

\* what one session.get can do: return a response, or raise RequestException
Responses ==
  { [kind |-> "response", status |-> 200, len |-> 7, error |-> ""],
    [kind |-> "response", status |-> 404, len |-> 3, error |-> ""],
    [kind |-> "response", status |-> 503, len |-> 0, error |-> ""],
    [kind |-> "exception", status |-> 0, len |-> 0, error |-> NetError] }

\* ---- polite_get ------------------------------------------------------
\* The frame of one polite_get call: f.attempt, f.backoff, f.max_retries are
\* its locals; f.gets and f.sleeps record the session.get calls made and the
\* time.sleep(backoff) durations; f.st is "get" (about to call session.get),
\* "sleep" (in time.sleep(backoff)) or "returned"; f.result holds the value
\* returned.

\* {"url": url, "status": status, "len": len(r.content)}
StatusResult(u, r) == [url |-> u, status |-> r.status, len |-> r.len]

\* {"url": url, "error": f"network error: {e}", "status": None}
\* (status None is the absence of the key: every reader uses .get("status"))
ErrorResult(u, text) == [url |-> u, error |-> text]

\* (mutant) the doubling without its ceiling
NextBackoff_NoCap(b, cap) == b * 2

\* backoff = min(backoff * 2, cap)
NextBackoff(b, cap) == IF b * 2 < cap THEN b * 2 ELSE cap

\* (mutant) every status other than 200 is retried while attempts remain
ShouldRetryStatus_Any(status, attempt, max_retries) == attempt < max_retries

\* (mutant) the retried statuses are retried on the last attempt too
ShouldRetryStatus_NoLimit(status, attempt, max_retries) == status \in RetryStatuses

\* whether a response status is retried on this attempt
ShouldRetryStatus(status, attempt, max_retries) ==
  status \in RetryStatuses /\ attempt < max_retries

\* (mutant) an exception is retried on the last attempt too
ShouldRetryError_Always(attempt, max_retries) == TRUE

\* whether an exception is retried on this attempt
ShouldRetryError(attempt, max_retries) == attempt # max_retries

\* (mutant) the backoff is slept once more before every return
Return_AfterSleep(f, value) ==
  [f EXCEPT !.st = "returned", !.result = <<value>>, !.sleeps = Append(@, f.backoff)]

\* return value
Return(f, value) == [f EXCEPT !.st = "returned", !.result = <<value>>]

\* time.sleep(backoff) is entered
Sleep(f) == [f EXCEPT !.st = "sleep", !.sleeps = Append(@, f.backoff)]

\* one pass of the loop body: session.get and what follows it, up to the
\* return or to the call of time.sleep(backoff)
AfterGet(f, r) ==
  LET g == [f EXCEPT !.gets = @ + 1]
  IN IF r.kind = "exception"
     THEN IF ShouldRetryError(g.attempt, g.max_retries)
          THEN Sleep(g)
          ELSE Return(g, ErrorResult(g.url, "network error: " \o r.error))
     ELSE IF r.status = 200
          THEN Return(g, StatusResult(g.url, r))
          ELSE IF ShouldRetryStatus(r.status, g.attempt, g.max_retries)
               THEN Sleep(g)
               ELSE Return(g, StatusResult(g.url, r))

\* (mutant) break in place of continue: the loop is left after the sleep
AfterSleep_Break(f, cap) ==
  Return([f EXCEPT !.backoff = NextBackoff(@, cap)],
         ErrorResult(f.url, "max retries exhausted"))

\* (mutant) the backoff is left as it was after a sleep
AfterSleep_NoAdvance(f, cap) ==
  LET g == [f EXCEPT !.attempt = @ + 1]
  IN IF g.attempt <= g.max_retries
     THEN [g EXCEPT !.st = "get"]
     ELSE Return(g, ErrorResult(g.url, "max retries exhausted"))

\* time.sleep(backoff) returns: the backoff advances, continue starts the next
\* attempt, and the loop falling through returns "max retries exhausted"
AfterSleep(f, cap) ==
  LET g == [f EXCEPT !.backoff = NextBackoff(@, cap), !.attempt = @ + 1]
  IN IF g.attempt <= g.max_retries
     THEN [g EXCEPT !.st = "get"]
     ELSE Return(g, ErrorResult(g.url, "max retries exhausted"))

\* polite_get(session, url, max_retries=m) is entered: backoff = 1.0, attempt 1
EnterPoliteGet(u, m) ==
  IF m >= 1
  THEN [st |-> "get", url |-> u, attempt |-> 1, backoff |-> 1, max_retries |-> m,
        gets |-> 0, sleeps |-> <<>>, result |-> <<>>]
  ELSE [st |-> "returned", url |-> u, attempt |-> 1, backoff |-> 1, max_retries |-> m,
        gets |-> 0, sleeps |-> <<>>,
        result |-> <<ErrorResult(u, "max retries exhausted")>>]

\* a future not yet submitted
NoUnit == [st |-> "new", url |-> EmptyUrl, attempt |-> 0, backoff |-> 0, max_retries |-> 0,
           gets |-> 0, sleeps |-> <<>>, result |-> <<>>]


\* ---- inputs ----------------------------------------------------------
\* the texts a caller may give for total, concurrency and delay
TotalInputs ==
  { <<>>, <<"a", "b", "c">>, <<"-", "1">>, <<"1", "0", "0", "1">>,
    <<"5", "0", "0", "0", "0", "0", "0", "0", "0", "0", "1">> }
  \cup { IntStr(n) : n \in 0..MaxTotal }

ConcInputs == { <<>>, <<"x">>, <<"0">>, <<"1">>, <<"9">> }

DelayInputs == { <<>>, <<"x">>, <<"-", "1">>, <<"0">> }

Answers == { "", "no", "YES", "go" }

\* str.lower() on the answers
Lower(a) == CASE a = "YES" -> "yes" [] a = "GO" -> "go" [] OTHER -> a

\* the texts kept: the url, the total, the delay, and the answer to the cap prompt
NoForm == [url |-> EmptyUrl, total |-> <<>>, delay |-> <<>>, conf |-> ""]

\* ---- the state after construction -------------------------------------
Idle(v, ph) ==
  /\ variant = v
  /\ phase = ph
  /\ msg = ""
  /\ form = NoForm
  /\ total = Big(0)
  /\ conc = Big(0)
  /\ delay = 0
  /\ max_workers = 0
  /\ submitted = 0
  /\ yielded = {}
  /\ results = <<>>
  /\ getCalls = 0
  /\ ok = 0
  /\ errors = 0

\* app: a POST is about to be handled; fos: main() is at its first prompt
Init ==
  /\ \E v \in Variants : Idle(v, IF v = "app" THEN "request" ELSE "prompt_url")
  /\ units = [i \in 1..MaxTotal |-> NoUnit]

\* ---- home() of app.py: validation and set-up --------------------------
\* int(request.form.get("total") or 1), 1 on any exception
AppTotal(t) == IF t # <<>> /\ IntParses(t) THEN ParseInt(t) ELSE Big(1)

\* int(request.form.get("concurrency") or DEFAULT_CONCURRENCY), default on exception
AppConc(c) == IF c # <<>> /\ IntParses(c) THEN ParseInt(c) ELSE DEFAULT_CONCURRENCY("app")

\* float(request.form.get("delay") or DEFAULT_DELAY), default on exception
AppDelay(d) == IF d # <<>> /\ FloatParses(d) THEN ParseFloat(d) ELSE DEFAULT_DELAY("app")

\* (mutant) only the empty url is turned down
UrlRejected_EmptyOnly(u) == u = EmptyUrl

\* not url or not is_valid_url(url.replace("{n}", "1"))
UrlRejected(u) == u = EmptyUrl \/ ~is_valid_url(ReplaceN(u, "1"))

\* (mutant) the comparison reversed: total < DEFAULT_MAX_REQUESTS
TooMany_Reversed(v, t) == BigLess(t, DEFAULT_MAX_REQUESTS(v))

\* total > DEFAULT_MAX_REQUESTS
TooMany(v, t) == BigGreater(t, DEFAULT_MAX_REQUESTS(v))

\* (mutant) max(conc, 5) in place of min(conc, 5)
AppMaxWorkers_Max(c) == IF BigLess(c, Big(5)) THEN Big(5) ELSE c

\* max_workers=min(conc, 5)
AppMaxWorkers(c) == BigMin(c, Big(5))

\* ThreadPoolExecutor.__init__ raises ValueError unless max_workers > 0
ExecutorRaises(mw) == ~BigLess(Big(0), mw)

\* the body of home() for a POST carrying the texts u, t, c, d
home_POST(u, t, c, d) ==
  /\ form' = [NoForm EXCEPT !.url = u, !.total = t, !.delay = d]
  /\ UNCHANGED <<variant, submitted, units, yielded, results, getCalls, ok, errors>>
  /\ IF UrlRejected(u)
     THEN /\ phase' = "invalid_url"
          /\ msg' = "Invalid or missing URL"
          /\ UNCHANGED <<total, conc, delay, max_workers>>
     ELSE /\ total' = AppTotal(t)
          /\ conc' = AppConc(c)
          /\ delay' = AppDelay(d)
          /\ IF TooMany("app", total')
             THEN /\ phase' = "too_many"
                  /\ msg' = "Too many requests"
                  /\ UNCHANGED max_workers
             ELSE IF ExecutorRaises(AppMaxWorkers(conc'))
                  THEN /\ phase' = "crashed"
                       /\ msg' = "ValueError: max_workers must be greater than 0"
                       /\ UNCHANGED max_workers
                  ELSE /\ phase' = "submitting"
                       /\ msg' = ""
                       /\ max_workers' = ToInt(AppMaxWorkers(conc'))

\* home() handles one POST
home ==
  /\ variant = "app"
  /\ phase = "request"
  /\ \E u \in UrlInputs, t \in TotalInputs, c \in ConcInputs, d \in DelayInputs :
       home_POST(u, t, c, d)

\* ---- main() of fos.py: the prompts ------------------------------------
Reprompt == /\ msg' = "Invalid input, please try again."
            /\ UNCHANGED phase

\* validate=lambda v: is_valid_url(v.replace("{n}", "1"))
AnswerUrl(u) ==
  /\ form' = [form EXCEPT !.url = u]
  /\ IF is_valid_url(ReplaceN(u, "1"))
     THEN phase' = "prompt_total" /\ msg' = ""
     ELSE Reprompt
  /\ UNCHANGED <<variant, total, conc, delay, max_workers, submitted, units, yielded,
                 results, getCalls, ok, errors>>

PromptUrl ==
  /\ variant = "fos"
  /\ phase = "prompt_url"
  /\ \E u \in UrlInputs : AnswerUrl(u)

\* validate=lambda v: v.isdigit() and int(v) > 0
TotalAccepted(t) == isdigit(t) /\ BigGreater(ParseInt(t), Big(0))

AnswerTotal(t) ==
  /\ form' = [form EXCEPT !.total = t]
  /\ IF TotalAccepted(t)
     THEN phase' = "prompt_conc" /\ msg' = "" /\ total' = ParseInt(t)
     ELSE Reprompt /\ UNCHANGED total
  /\ UNCHANGED <<variant, conc, delay, max_workers, submitted, units, yielded,
                 results, getCalls, ok, errors>>

PromptTotal ==
  /\ variant = "fos"
  /\ phase = "prompt_total"
  /\ \E t \in TotalInputs : AnswerTotal(t)

\* validate=lambda v: v.isdigit() and int(v) > 0 if v else True, allow_empty=True;
\* concurrency = int(conc) if conc else DEFAULT_CONCURRENCY
ConcAccepted(c) == c = <<>> \/ (isdigit(c) /\ BigGreater(ParseInt(c), Big(0)))

AnswerConc(c) ==
  /\ UNCHANGED form
  /\ IF ConcAccepted(c)
     THEN /\ phase' = "prompt_delay"
          /\ msg' = ""
          /\ conc' = IF c = <<>> THEN DEFAULT_CONCURRENCY("fos") ELSE ParseInt(c)
     ELSE Reprompt /\ UNCHANGED conc
  /\ UNCHANGED <<variant, total, delay, max_workers, submitted, units, yielded,
                 results, getCalls, ok, errors>>

PromptConc ==
  /\ variant = "fos"
  /\ phase = "prompt_conc"
  /\ \E c \in ConcInputs : AnswerConc(c)

\* validate=lambda v: v.replace(".","",1).isdigit() if v else True, allow_empty=True
DelayAccepted(d) == d = <<>> \/ isdigit(DropFirstDot(d))

\* delay = float(delay) if delay else DEFAULT_DELAY
FosDelay(d) == IF d = <<>> THEN DEFAULT_DELAY("fos") ELSE ParseFloat(d)

\* the delay prompt, then the check of total against DEFAULT_MAX_REQUESTS
AnswerDelay(d) ==
  /\ form' = [form EXCEPT !.delay = d]
  /\ IF DelayAccepted(d)
     THEN /\ delay' = FosDelay(d)
          /\ phase' = IF TooMany("fos", total) THEN "prompt_cap" ELSE "prompt_go"
          /\ msg' = IF TooMany("fos", total) THEN "exceeds safe cap" ELSE "Will send"
     ELSE Reprompt /\ UNCHANGED delay
  /\ UNCHANGED <<variant, total, conc, max_workers, submitted, units, yielded,
                 results, getCalls, ok, errors>>

PromptDelay ==
  /\ variant = "fos"
  /\ phase = "prompt_delay"
  /\ \E d \in DelayInputs : AnswerDelay(d)

\* "Type 'yes' to proceed anyway, anything else to cancel"
AnswerCap(a) ==
  /\ form' = [form EXCEPT !.conf = a]
  /\ IF Lower(a) # "yes"
     THEN phase' = "canceled" /\ msg' = "Canceled."
     ELSE phase' = "prompt_go" /\ msg' = "Will send"
  /\ UNCHANGED <<variant, total, conc, delay, max_workers, submitted, units, yielded,
                 results, getCalls, ok, errors>>

PromptCap ==
  /\ variant = "fos"
  /\ phase = "prompt_cap"
  /\ \E a \in Answers : AnswerCap(a)

\* "Type 'go' to start or anything else to cancel", then the session and
\* ThreadPoolExecutor(max_workers=concurrency)
AnswerGo(a) ==
  /\ UNCHANGED form
  /\ IF Lower(a) # "go"
     THEN phase' = "canceled" /\ msg' = "Canceled." /\ UNCHANGED max_workers
     ELSE phase' = "submitting" /\ msg' = "" /\ max_workers' = ToInt(conc)
  /\ UNCHANGED <<variant, total, conc, delay, submitted, units, yielded,
                 results, getCalls, ok, errors>>

PromptGo ==
  /\ variant = "fos"
  /\ phase = "prompt_go"
  /\ \E a \in Answers : AnswerGo(a)


\* ---- the dispatcher: ThreadPoolExecutor and as_completed ---------------
Indices == 1..MaxTotal

\* (mutant) a unit in its pacing sleep no longer counts as executing
Executing_NoPacing == { i \in Indices : units[i].st \in {"get", "sleep"} }

\* units inside worker_task: in polite_get or in the pacing sleep
Executing == { i \in Indices : units[i].st \in {"get", "sleep", "returned"} }

Finished == { i \in Indices : units[i].st \in {"done", "raised"} }

\* range(1, total + 1) still has an index to submit
MoreToSubmit == BigLess(Big(submitted), total)

\* ex.submit(worker_task, session, url, n, delay) for the next n.  The model
\* follows the first MaxTotal submissions: a larger total (reachable in fos.py
\* by confirming past the cap) stays in its submission loop.
Submit ==
  /\ phase = "submitting"
  /\ MoreToSubmit
  /\ submitted < MaxTotal
  /\ submitted' = submitted + 1
  /\ units' = [units EXCEPT ![submitted + 1].st = "queued"]
  /\ UNCHANGED <<variant, phase, msg, form, total, conc, delay, max_workers, yielded,
                 results, getCalls, ok, errors>>

\* every index is submitted: the orchestrator enters the as_completed loop
StartCollecting ==
  /\ phase = "submitting"
  /\ ~MoreToSubmit
  /\ phase' = "collecting"
  /\ UNCHANGED <<variant, msg, form, total, conc, delay, max_workers, submitted, units,
                 yielded, results, getCalls, ok, errors>>

\* whether a pool thread may take a work item: fewer than max_workers are busy
SlotFree == Cardinality(Executing) < max_workers

\* whether the pool's threads still take work items from the queue in this
\* phase: shutdown(wait=False) cancels nothing (no cancel_futures), and an
\* exception leaving the with block waits in shutdown(wait=True)
PoolServes == phase \in {"submitting", "collecting", "summary", "crashed", "interrupted"}

\* worker_task's first statement: the url of unit n
WorkerEnter(u, n, v) ==
  IF HasPlaceholder(u) /\ FormatRaises(u)
  THEN [NoUnit EXCEPT !.st = "raised"]
  ELSE EnterPoliteGet(ExpandUrl(u, n), DefaultMaxRetries(v))

\* a pool thread takes unit i, the head of the FIFO work queue, and runs
\* worker_task up to the first session.get
Start(i) ==
  /\ PoolServes
  /\ units[i].st = "queued"
  /\ \A j \in 1..(i - 1) : units[j].st # "queued"
  /\ SlotFree
  /\ units' = [units EXCEPT ![i] = WorkerEnter(form.url, i, variant)]
  /\ UNCHANGED <<variant, phase, msg, form, total, conc, delay, max_workers, submitted,
                 yielded, results, getCalls, ok, errors>>

\* result = polite_get(session, url): worker_task holds the value returned and
\* nothing else of the call; until it returns the call's frame is live
InWorker(f) == IF f.st = "returned" THEN [NoUnit EXCEPT !.st = "returned", !.result = f.result]
               ELSE f

\* session.get(url, timeout=timeout) of unit i returns r or raises
Get(i, r) ==
  /\ phase # "exited"
  /\ phase # "direct"
  /\ units[i].st = "get"
  /\ units' = [units EXCEPT ![i] = InWorker(AfterGet(units[i], r))]
  /\ getCalls' = getCalls + 1
  /\ UNCHANGED <<variant, phase, msg, form, total, conc, delay, max_workers, submitted,
                 yielded, results, ok, errors>>

\* time.sleep(backoff) of unit i returns
Wake(i) ==
  /\ phase # "exited"
  /\ phase # "direct"
  /\ units[i].st = "sleep"
  /\ units' = [units EXCEPT ![i] = InWorker(AfterSleep(units[i], BackoffCap(variant)))]
  /\ UNCHANGED <<variant, phase, msg, form, total, conc, delay, max_workers, submitted,
                 yielded, results, getCalls, ok, errors>>

\* time.sleep(delay) raises ValueError for a negative argument
SleepRaises(d) == d < 0

\* worker_task after polite_get: time.sleep(delay); return result
AfterPace(f, d) == IF SleepRaises(d) THEN [NoUnit EXCEPT !.st = "raised"]
                   ELSE [f EXCEPT !.st = "done"]

Pace(i) ==
  /\ PoolServes
  /\ units[i].st = "returned"
  /\ units' = [units EXCEPT ![i] = AfterPace(units[i], delay)]
  /\ UNCHANGED <<variant, phase, msg, form, total, conc, delay, max_workers, submitted,
                 yielded, results, getCalls, ok, errors>>

\* as_completed yields a finished future; f.result() returns its value, which is
\* appended to results, or raises the exception the worker raised
Collect(i) ==
  /\ phase = "collecting"
  /\ i \in Finished \ yielded
  /\ yielded' = yielded \cup {i}
  /\ IF units[i].st = "done"
     THEN /\ results' = results \o units[i].result
          /\ UNCHANGED <<phase, msg>>
     ELSE /\ phase' = "crashed"
          /\ msg' = "exception raised by f.result()"
          /\ UNCHANGED results
  /\ UNCHANGED <<variant, form, total, conc, delay, max_workers, submitted, units,
                 getCalls, ok, errors>>

\* sum(1 for r in results if r.get("status") == 200)
IsOk(r) == "status" \in DOMAIN r /\ r.status = 200

CountOk(rs) == Cardinality({ k \in 1..Len(rs) : IsOk(rs[k]) })

\* errors = total - ok
CountErrors(t, k) == ToInt(t) - k

\* as_completed is exhausted: the with block ends and the summary is made
Summary ==
  /\ phase = "collecting"
  /\ yielded = { i \in Indices : i <= submitted }
  /\ phase' = "summary"
  /\ ok' = CountOk(results)
  /\ errors' = CountErrors(total, ok')
  /\ msg' = "Summary"
  /\ UNCHANGED <<variant, form, total, conc, delay, max_workers, submitted, units,
                 yielded, results, getCalls>>

\* fos: KeyboardInterrupt inside the try: "Interrupted by user", then
\* ex.shutdown(wait=False) and sys.exit(1) raising SystemExit in the with block
Interrupt ==
  /\ variant = "fos"
  /\ phase = "collecting"
  /\ phase' = "interrupted"
  /\ msg' = "Interrupted by user. Exiting."
  /\ UNCHANGED <<variant, form, total, conc, delay, max_workers, submitted, units,
                 yielded, results, getCalls, ok, errors>>

\* whether the with block's __exit__, shutdown(wait=True), has joined the pool
PoolJoined == \A i \in Indices : units[i].st \in {"new", "done", "raised"}

\* SystemExit leaves the with block once __exit__ returns: the process exits
Exit ==
  /\ phase = "interrupted"
  /\ PoolJoined
  /\ phase' = "exited"
  /\ UNCHANGED <<variant, msg, form, total, conc, delay, max_workers, submitted, units,
                 yielded, results, getCalls, ok, errors>>

Next ==
  \/ home
  \/ PromptUrl
  \/ PromptTotal
  \/ PromptConc
  \/ PromptDelay
  \/ PromptCap
  \/ PromptGo
  \/ Submit
  \/ StartCollecting
  \/ \E i \in Indices : Start(i)
  \/ \E i \in Indices, r \in Responses : Get(i, r)
  \/ \E i \in Indices : Wake(i)
  \/ \E i \in Indices : Pace(i)
  \/ \E i \in Indices : Collect(i)
  \/ Summary
  \/ Interrupt
  \/ Exit

Spec == Init /\ [][Next]_vars

\* ---- polite_get called on its own, with any max_retries ----------------
\* One call polite_get(session, DirectUrl, max_retries=m) of either variant,
\* observed by its caller: units[1] is the call's frame, f.gets and f.sleeps
\* what the session and time.sleep were asked, f.result the value returned.
DirectUrl == [scheme |-> "http", netloc |-> "x.test", path |-> <<"p">>]

call == units[1]

InitGet ==
  /\ \E v \in Variants : Idle(v, "direct")
  /\ \E m \in 0..MaxAttempts :
       units = [i \in Indices |-> IF i = 1 THEN EnterPoliteGet(DirectUrl, m) ELSE NoUnit]

\* session.get returns r or raises
CallGet(r) ==
  /\ phase = "direct"
  /\ call.st = "get"
  /\ units' = [units EXCEPT ![1] = AfterGet(call, r)]
  /\ getCalls' = getCalls + 1
  /\ UNCHANGED <<variant, phase, msg, form, total, conc, delay, max_workers, submitted,
                 yielded, results, ok, errors>>

\* time.sleep(backoff) returns
CallWake ==
  /\ phase = "direct"
  /\ call.st = "sleep"
  /\ units' = [units EXCEPT ![1] = AfterSleep(call, BackoffCap(variant))]
  /\ UNCHANGED <<variant, phase, msg, form, total, conc, delay, max_workers, submitted,
                 yielded, results, getCalls, ok, errors>>

\* what session.get can do in a direct call: also the other retried statuses
DirectResponses ==
  Responses \cup { [kind |-> "response", status |-> 429, len |-> 0, error |-> ""],
                   [kind |-> "response", status |-> 500, len |-> 2, error |-> ""],
                   [kind |-> "exception", status |-> 0, len |-> 0, error |-> "refused"] }

NextGet ==
  \/ \E r \in DirectResponses : CallGet(r)
  \/ CallWake

SpecGet == InitGet /\ [][NextGet]_vars


\* ======================================================================
\* The claims
\* ======================================================================

\* the orchestrator is past validation: the pool exists or existed
Dispatching == phase \in {"submitting", "collecting", "summary", "interrupted", "exited"}

\* the total typed is text, and not the text of a positive integer
NotPositiveInt(t) == t # <<>> /\ ~(IntParses(t) /\ BigGreater(ParseInt(t), Big(0)))

\* total exceeds the configured maximum of the variant
ExceedsMax == BigGreater(total, DEFAULT_MAX_REQUESTS(variant))

Min(a, b) == IF a < b THEN a ELSE b

\* C1: a batch that passed validation and ran to completion reports
\* successCount + failureCount = total = len(outcomes), successCount being the
\* number of outcomes with status 200.  (Stated as claimed; app.py accepts a
\* negative total, see C5.)
C1_SummaryCounts ==
  phase = "summary" =>
    /\ Len(results) = ToInt(total)
    /\ ok + errors = ToInt(total)
    /\ ok = CountOk(results)

\* C2: with concurrency C, at most C units of work execute at once (from the
\* start of worker_task to the end of its pacing sleep), whatever the total and
\* the interleaving.
C2_ConcurrencyBound ==
  max_workers > 0 =>
    /\ Cardinality(Executing) <= max_workers
    /\ max_workers <= ToInt(conc)

\* C2 witness: every slot is busy and a submitted unit waits for one.
C2_PoolSaturated ==
  /\ max_workers > 0
  /\ Cardinality(Executing) = ToInt(conc)
  /\ \E i \in Indices : units[i].st = "queued"

\* C3: once the KeyboardInterrupt is observed, no queued unit is started, no
\* unit in a backoff sleep starts a further attempt, and the orchestrator can
\* exit at once, without waiting for the units in flight or queued.  (Stated as
\* claimed.)
C3_CancelStopsWork ==
  [][phase = "interrupted" =>
       /\ \A i \in Indices : units[i].st = "queued" => units'[i].st = "queued"
       /\ \A i \in Indices : units[i].st = "sleep" => units'[i].st # "get"
       /\ ENABLED Exit]_vars

\* C4: once a request has passed validation the batch never fails: no
\* exception leaves a worker or the dispatcher.  (Stated as claimed.)
C4_BatchNeverFails ==
  /\ phase # "crashed"
  /\ \A i \in Indices : units[i].st # "raised"

\* C5: a total that is not a positive integer (zero, negative, unparsable) is
\* rejected before any work starts: no pool, no submission, no GET, no summary.
\* (Stated as claimed.)
C5_InvalidTotalRejected ==
  NotPositiveInt(form.total) =>
    /\ ~Dispatching
    /\ max_workers = 0
    /\ submitted = 0
    /\ getCalls = 0

\* C6, as claimed: a total above DEFAULT_MAX_REQUESTS is rejected and no
\* session.get is ever called for the request.
C6_TooLargeNoCalls ==
  ExceedsMax => getCalls = 0

\* C6, amended: a total above DEFAULT_MAX_REQUESTS is rejected with no pool
\* and no session.get, in app.py always, and in fos.py unless the caller
\* answered "yes" (in any case) to the prompt that offers to proceed anyway.
C6_TooLargeNoCallsUnlessConfirmed ==
  ExceedsMax /\ (variant = "app" \/ Lower(form.conf) # "yes") =>
    /\ ~Dispatching
    /\ max_workers = 0
    /\ submitted = 0
    /\ getCalls = 0

\* C6 witness: a request above the maximum was turned down.
C6_Rejected ==
  /\ ExceedsMax
  /\ \/ variant = "app" /\ phase = "too_many"
     \/ variant = "fos" /\ phase = "canceled" /\ form.conf = "no"

\* C7: every batch that reaches dispatch has a delay >= 0, and an absent or
\* unparsable delay has been replaced by DEFAULT_DELAY.  (Stated as claimed.)
C7_DelayNonNegative ==
  Dispatching =>
    /\ delay >= 0
    /\ (form.delay = <<>> \/ ~FloatParses(form.delay)) => delay = DEFAULT_DELAY(variant)

\* C8: an attempt that receives status 200 returns Success{url, 200, len} at
\* once, that attempt's GET being the last and no sleep following it; once
\* polite_get has returned it calls nothing more.
C8_SuccessIsImmediate ==
  [][/\ \A r \in DirectResponses :
          (r.kind = "response" /\ r.status = 200 /\ CallGet(r)) =>
            /\ call'.st = "returned"
            /\ call'.result = <<[url |-> call.url, status |-> 200, len |-> r.len]>>
            /\ call'.gets = call.attempt
            /\ call'.sleeps = call.sleeps
            /\ Len(call.sleeps) = call.attempt - 1
     /\ call.st = "returned" => call' = call /\ getCalls' = getCalls]_vars

\* C8 witness: a 200 on the first attempt: Success after one GET and no sleep.
C8_FirstAttemptSuccess ==
  /\ phase = "direct"
  /\ call.st = "returned"
  /\ IsOk(call.result[1])
  /\ call.gets = 1
  /\ getCalls = 1
  /\ call.sleeps = <<>>
  /\ call.max_retries > 1

\* the backoff slept before retry j: min(2^(j-1), cap)
BackoffAt(j, cap) == Min(2 ^ (j - 1), cap)

\* C9: Success after k retried results is reached after exactly k sleeps, the
\* j-th of min(2^(j-1), cap), with k < max_retries; the backoff is 1 on entry
\* and min(previous * 2, cap) after each retry.
C9_BackoffSchedule ==
  phase = "direct" =>
    /\ call.st = "get" =>
         /\ call.backoff = BackoffAt(call.attempt, BackoffCap(variant))
         /\ call.gets = call.attempt - 1
    /\ call.st = "returned" /\ IsOk(call.result[1]) =>
         /\ call.gets - 1 < call.max_retries
         /\ call.sleeps = [j \in 1..(call.gets - 1) |-> BackoffAt(j, BackoffCap(variant))]

\* C9 witness: [503, 503, 200]-like runs: Success after sleeps of 1 then 2.
C9_TwoRetriesThenSuccess ==
  /\ phase = "direct"
  /\ call.st = "returned"
  /\ IsOk(call.result[1])
  /\ call.gets = 3
  /\ call.sleeps = <<1, 2>>

\* C10: a first-attempt status that is neither 200 nor retried returns
\* HTTPFailure with that status after one GET and no sleep, whatever
\* max_retries is.
C10_TerminalStatusFirstAttempt ==
  [][\A r \in DirectResponses :
       (/\ r.kind = "response"
        /\ r.status \notin {200, 429, 500, 502, 503, 504}
        /\ call.attempt = 1
        /\ CallGet(r)) =>
         /\ call'.st = "returned"
         /\ call'.result = <<[url |-> call.url, status |-> r.status, len |-> r.len]>>
         /\ call'.gets = 1
         /\ getCalls' = 1
         /\ call'.sleeps = <<>>]_vars

\* C10 witness: a 404 on the first of several attempts came back as HTTPFailure.
C10_NotFoundFirstAttempt ==
  /\ phase = "direct"
  /\ call.st = "returned"
  /\ call.result = <<[url |-> DirectUrl, status |-> 404, len |-> 3]>>
  /\ call.gets = 1
  /\ call.sleeps = <<>>
  /\ call.max_retries = MaxAttempts


\* the value polite_get returns when its loop falls through
Exhausted(u) == [url |-> u, error |-> "max retries exhausted"]

\* a response with one of the retried statuses
RetriedStatus(r) == r.kind = "response" /\ r.status \in {429, 500, 502, 503, 504}

\* C11, as claimed: with max_retries >= 1, a retried status received on the
\* last attempt (every earlier attempt having been retried) makes polite_get
\* return RetriesExhausted{url}.
C11_ExhaustedAfterLastRetryable ==
  [][\A r \in DirectResponses :
       (/\ RetriedStatus(r)
        /\ call.max_retries >= 1
        /\ call.attempt = call.max_retries
        /\ CallGet(r)) =>
         call'.st = "returned" /\ call'.result = <<Exhausted(call.url)>>]_vars

\* C11, amended: a retried status received on the last attempt returns
\* HTTPFailure with that status; "max retries exhausted" is returned only by a
\* call whose loop runs no attempt (max_retries < 1), which calls session.get
\* and time.sleep not at all.
C11_ExhaustedOnlyWithoutAttempts ==
  /\ [][\A r \in DirectResponses :
          (/\ RetriedStatus(r)
           /\ call.attempt = call.max_retries
           /\ CallGet(r)) =>
            /\ call'.st = "returned"
            /\ call'.result = <<[url |-> call.url, status |-> r.status, len |-> r.len]>>]_vars
  /\ [](call.st = "returned" /\ call.result = <<Exhausted(call.url)>> =>
          call.max_retries < 1 /\ call.gets = 0 /\ call.sleeps = <<>>)

\* C11 witness: every attempt of several drew a 503 and the call returned
\* HTTPFailure 503.
C11_LastRetryableIsHTTPFailure ==
  /\ phase = "direct"
  /\ call.st = "returned"
  /\ call.max_retries = 3
  /\ call.gets = 3
  /\ call.result = <<[url |-> DirectUrl, status |-> 503, len |-> 0]>>


\* the total is one whose every submission the model follows
TotalModelled == ~BigLess(Big(MaxTotal), total)

\* C12: without cancellation, every submitted unit yields exactly one outcome
\* and the batch completes: whenever the pool exists and nothing is left to
\* run (every GET has returned or failed, every sleep has ended), the summary
\* has been made from one outcome per submitted unit; and at no time are there
\* more outcomes than units collected.  (Stated as claimed.)
C12_EveryUnitYieldsOneOutcome ==
  /\ Len(results) <= Cardinality(yielded)
  /\ (/\ max_workers > 0
      /\ phase \notin {"interrupted", "exited"}
      /\ TotalModelled
      /\ ~ENABLED Next) =>
       /\ phase = "summary"
       /\ yielded = 1..submitted
       /\ Len(results) = submitted


\* expand(template, i) as the spec defines it: the index substituted for the
\* placeholder, nothing else touched
Substituted(u, i) == ReplaceN(u, Concat(IntStr(i)))

\* the urls of the outcomes, as a bag
RECURSIVE UrlBag(_)
UrlBag(rs) ==
  IF rs = <<>> THEN [u \in {} |-> 0]
  ELSE LET b == UrlBag(Tail(rs))
           u == Head(rs).url
       IN [v \in DOMAIN b \cup {u} |->
             (IF v \in DOMAIN b THEN b[v] ELSE 0) + (IF v = u THEN 1 ELSE 0)]

\* the urls of expand(template, i) for i in 1..n, as a bag
RECURSIVE ExpandBag(_, _)
ExpandBag(u, n) ==
  IF n < 1 THEN [v \in {} |-> 0]
  ELSE LET b == ExpandBag(u, n - 1)
           e == Substituted(u, n)
       IN [v \in DOMAIN b \cup {e} |->
             (IF v \in DOMAIN b THEN b[v] ELSE 0) + (IF v = e THEN 1 ELSE 0)]

\* C13: one unit is submitted for each index of 1..total; the unit of index i,
\* once a pool thread runs it, targets expand(template, i); and the outcome
\* urls of a completed batch are the bag {expand(template, i) : i in 1..total}.
\* (Stated as claimed.)
C13_UnitsTargetExpandedUrl ==
  /\ [](phase \in {"collecting", "summary"} /\ TotalModelled /\ ~BigLess(total, Big(0)) =>
          submitted = ToInt(total))
  /\ [][\A i \in Indices :
          units[i].st = "queued" /\ units'[i].st # "queued" =>
            units'[i].st = "get" /\ units'[i].url = Substituted(form.url, i)]_vars
  /\ [](phase = "summary" => UrlBag(results) = ExpandBag(form.url, submitted))


\* the url received is empty, or not an http(s) url with a host once the
\* placeholder is filled in
InvalidUrl(u) == u = EmptyUrl \/ u.scheme \notin {"http", "https"} \/ u.netloc = ""

\* C14: validation runs in order and the first failure wins, before any
\* network I/O: app.py turns down an invalid url as such whatever the total
\* (also one above the maximum), and a request turned down, for its url or for
\* its total, has no pool, no submission and no session.get.
C14_FirstFailureWins ==
  variant = "app" /\ phase # "request" =>
    /\ InvalidUrl(form.url) =>
         phase = "invalid_url" /\ msg = "Invalid or missing URL"
    /\ phase \in {"invalid_url", "too_many"} =>
         /\ max_workers = 0
         /\ submitted = 0
         /\ getCalls = 0
         /\ \A i \in Indices : units[i].st = "new"
    /\ phase = "too_many" => ~InvalidUrl(form.url) /\ ExceedsMax

\* C14 witness: an invalid url sent with a total above the maximum was
\* answered "Invalid or missing URL".
C14_InvalidUrlBeatsTooLarge ==
  /\ variant = "app"
  /\ phase = "invalid_url"
  /\ form.url.scheme = "ftp"
  /\ form.total = <<"1", "0", "0", "1">>
  /\ getCalls = 0


\* C15: for every concurrency text that parses as an integer, app.py runs
\* the batch with min(concurrency, 5) worker slots and does not fail on
\* account of the value.  (Stated as claimed; conc holds the parsed value, and
\* only a parsed value can be below 1 since the default is 10.)
C15_ConcurrencyNeverFails ==
  variant = "app" /\ phase \notin {"request", "invalid_url", "too_many"} =>
    /\ max_workers = ToInt(BigMin(conc, Big(5)))
    /\ msg # "ValueError: max_workers must be greater than 0"


\* a status or failure that polite_get retries while attempts remain
Retryable(r) == r.kind = "exception" \/ RetriedStatus(r)

\* C16: a retry happens only while attempt < max_retries: one call of
\* polite_get issues at most max_retries GETs, it sleeps only on an attempt
\* before the last, and a retryable status or network failure received on
\* attempt = max_retries ends the call with no sleep.
C16_RetryOnlyBelowLimit ==
  /\ [](phase = "direct" =>
          /\ call.gets <= call.max_retries
          /\ call.st = "sleep" => call.attempt < call.max_retries)
  /\ [][\A r \in DirectResponses :
          (Retryable(r) /\ call.attempt = call.max_retries /\ CallGet(r)) =>
            /\ call'.st = "returned"
            /\ call'.sleeps = call.sleeps]_vars

\* C16 witness: a call of two attempts ended on a network failure of its
\* second attempt, after two GETs.
C16_FailureOnLastAttempt ==
  /\ phase = "direct"
  /\ call.st = "returned"
  /\ call.max_retries = 2
  /\ call.gets = 2
  /\ call.sleeps = <<1>>
  /\ call.result = <<[url |-> DirectUrl, error |-> "network error: refused"]>>


\* {"url": url, "error": "network error: ..."} for the exception r
NetworkFailure(u, r) == [url |-> u, error |-> "network error: " \o r.error]

NetworkFailures == { NetworkFailure(DirectUrl, r) : r \in { x \in DirectResponses : x.kind = "exception" } }

\* C17: a network-level failure (a timeout included) is handled like a
\* retried status: before the last attempt polite_get sleeps the current
\* backoff, then advances the backoff and issues the next GET; on the last
\* attempt it returns the network failure of that attempt; and a call that
\* returns a network failure has issued exactly max_retries GETs and slept
\* max_retries - 1 times.
C17_NetworkFailureRetried ==
  /\ [][\A r \in DirectResponses :
          (r.kind = "exception" /\ CallGet(r)) =>
            IF call.attempt < call.max_retries
            THEN /\ call'.st = "sleep"
                 /\ call'.sleeps = Append(call.sleeps, call.backoff)
                 /\ call'.attempt = call.attempt
            ELSE /\ call'.st = "returned"
                 /\ call'.result = <<NetworkFailure(call.url, r)>>]_vars
  /\ [][CallWake =>
          /\ call'.st = "get"
          /\ call'.attempt = call.attempt + 1
          /\ call'.backoff = Min(2 * call.backoff, BackoffCap(variant))]_vars
  /\ [](phase = "direct" /\ call.st = "returned" /\ call.result[1] \in NetworkFailures =>
          /\ call.gets = call.max_retries
          /\ Len(call.sleeps) = call.max_retries - 1)

\* C17 witness: all three attempts of a call timed out; it slept 1 and 2 and
\* returned the timeout of the third.
C17_ThreeTimeouts ==
  /\ phase = "direct"
  /\ call.st = "returned"
  /\ call.max_retries = 3
  /\ call.gets = 3
  /\ call.sleeps = <<1, 2>>
  /\ call.result = <<[url |-> DirectUrl, error |-> "network error: timeout"]>>


\* units whose polite_get has returned and whose time.sleep(delay) has not
InPacing == { i \in Indices : units[i].st = "returned" }

\* units between the entry of worker_task and the end of time.sleep(delay)
HoldingSlot == { i \in Indices : units[i].st \in {"get", "sleep"} } \cup InPacing

\* C18: pacing is per completed unit and holds the slot: a queued unit is
\* taken (and its first GET made possible) only while fewer than max_workers
\* units are in polite_get or in the pacing sleep that follows it, so a slot's
\* next unit waits for the end of the previous unit's pacing sleep; and a
\* unit's outcome reaches the collector only once its pacing sleep has ended.
C18_PacingHoldsSlot ==
  /\ [][\A i \in Indices :
          units[i].st = "queued" /\ units'[i].st # "queued" =>
            Cardinality(HoldingSlot) < max_workers]_vars
  /\ [][\A i \in Indices :
          units[i].st \notin {"done", "raised"} /\ units'[i].st = "done" =>
            i \in InPacing /\ units'[i].result = units[i].result]_vars
  /\ [](\A i \in yielded : units[i].st \in {"done", "raised"})
  /\ [](\A i \in Indices : units[i].st = "get" /\ max_workers = 1 =>
          \A j \in Indices \ {i} : j \notin InPacing)

\* C18 witness: the only slot is held by unit 1 in its pacing sleep while
\* unit 2 waits in the queue; nothing has been yielded.
C18_NextUnitWaitsForPacing ==
  /\ max_workers = 1
  /\ units[1].st = "returned"
  /\ units[2].st = "queued"
  /\ yielded = {}
  /\ phase = "collecting"


\* C19: for every max_retries >= 1, when polite_get returns it has slept
\* exactly once less than it has called session.get; every sleep is followed
\* by another GET, and the attempt that ends the call is not followed by a
\* sleep.
C19_SleepsAreGetsMinusOne ==
  /\ [](phase = "direct" /\ call.max_retries >= 1 =>
          /\ call.st = "returned" => call.gets >= 1 /\ Len(call.sleeps) = call.gets - 1
          /\ call.st = "get" => Len(call.sleeps) = call.gets
          /\ call.st = "sleep" => Len(call.sleeps) = call.gets)
  /\ [][call.st = "sleep" =>
          call'.st = "get" /\ call'.gets = call.gets /\ call'.sleeps = call.sleeps]_vars
  /\ [][call.st = "get" /\ call'.st = "get" => FALSE]_vars
  /\ [][call'.st = "returned" => call'.sleeps = call.sleeps /\ call.st = "get"]_vars

\* C19 witness: a call of the CLI variant's five attempts returned after four
\* retried statuses and a success: five GETs, four sleeps.
C19_FiveGetsFourSleeps ==
  /\ phase = "direct"
  /\ call.st = "returned"
  /\ call.max_retries = 5
  /\ call.gets = 5
  /\ Len(call.sleeps) = 4
  /\ call.result = <<[url |-> DirectUrl, status |-> 200, len |-> 7]>>


RECURSIVE SumSeq(_)
SumSeq(q) == IF q = <<>> THEN 0 ELSE q[1] + SumSeq(Tail(q))

\* the longest backoff sleep and the total backoff time the claim allows a unit
LongestSleep(v) == IF v = "app" THEN 2 ELSE 8
TotalBackoff(v) == IF v = "app" THEN 3 ELSE 15

\* C20: with the attempt limits worker_task uses (polite_get's default: 3 in
\* app.py, 5 in fos.py) the cap is never the duration of a backoff sleep:
\* every sleep of a unit is strictly below the cap, at most 2 against cap 10
\* in app.py and at most 8 against cap 60 in fos.py, and a unit's sleeps add
\* up to at most 3 and 15.
C20_CapNeverSlept ==
  phase # "direct" =>
    \A i \in Indices :
      units[i].st \in {"get", "sleep"} =>
        /\ units[i].max_retries = (IF variant = "app" THEN 3 ELSE 5)
        /\ \A k \in 1..Len(units[i].sleeps) :
             /\ units[i].sleeps[k] < (IF variant = "app" THEN 10 ELSE 60)
             /\ units[i].sleeps[k] <= LongestSleep(variant)
        /\ SumSeq(units[i].sleeps) <= TotalBackoff(variant)

\* C20 witness: a unit of fos.py on its fifth attempt has slept 1, 2, 4 and 8.
C20_LongestBackoffRun ==
  /\ variant = "fos"
  /\ \E i \in Indices :
       /\ units[i].st = "get"
       /\ units[i].attempt = 5
       /\ units[i].sleeps = <<1, 2, 4, 8>>

============================================================================
